---- MODULE Spec2Model ----
(***************************************************************************)
(* Model of the smbpbisensor "read" command (src/src/smbpbisensor.rs):     *)
(* main opens the i2c device, checks the requested size, and calls         *)
(* smbus_read_post_box, which encodes the offset, submits one write+read   *)
(* transfer and checks the number of completed messages.                   *)
(***************************************************************************)
EXTENDS Integers, Sequences, FiniteSets, TLC

\* ---- program constants ----
MAX_POST_BOX_SIZE == 8
U8_MAX == 255
U16_MAX == 65535
EXIT_SUCCESS == 0
EXIT_FAILURE == 1

\* ---- bounds of the model ----
MaxSize == 9
MaxByte == 1
MaxN == 3
MaxOther == 1

None == -1
Buses == {0, 1}
Addresses == {79}
Offsets == {16, 255, 256, 4660}

VARIABLES pc, args, i2c, openCalls, value, addr, transferLog, busLog,
          supplied, n, m, err, stdout, exitCode

vars == <<pc, args, i2c, openCalls, value, addr, transferLog, busLog,
          supplied, n, m, err, stdout, exitCode>>

\* ---- helpers ----
Terminal == {"done", "failed"}

Zeros(k) == [i \in 1..k |-> 0]

\* format!("/dev/i2c-{bus}")
BusPath(bus) == <<"/dev/i2c-", bus>>

\* one layer of an anyhow error chain: the message and the values it names
Layer(text, bus_path, address, offset, size, cnt, exp, max) ==
  [text |-> text, bus_path |-> bus_path, address |-> address,
   offset |-> offset, size |-> size, n |-> cnt, m |-> exp, max |-> max]

OpenContext(bus_path, address) ==
  Layer("Unable to open", bus_path, address, None, None, None, None, None)

SizeError ==
  Layer("Maximum post-box size", <<>>, None, None, None, None, None,
        MAX_POST_BOX_SIZE)

\* faulty variant: the context of the read names the offset only
ReadContext_noSize(offset, size) ==
  Layer("Unable to read post-box", <<>>, None, offset, None, None, None, None)

ReadContext(offset, size) ==
  Layer("Unable to read post-box", <<>>, None, offset, size, None, None, None)

TransferContext ==
  Layer("Unable to complete i2c transfer", <<>>, None, None, None, None, None,
        None)

CountError(cnt, exp) ==
  Layer("Only n/m messages were transmitted successfully", <<>>, None, None,
        None, cnt, exp, None)

IoError == Layer("io error", <<>>, None, None, None, None, None, None)

to_be_bytes(x) == <<(x \div 256) % 256, x % 256>>

\* faulty variant: the one-byte form is chosen with < instead of <=
EncodeOffset_strictLess(offset) ==
  LET buf == <<0, 0>>
  IN  IF offset < U8_MAX
        THEN SubSeq([buf EXCEPT ![1] = offset % 256], 1, 1)
        ELSE to_be_bytes(offset)

\* the address bytes built at the top of smbus_read_post_box
EncodeOffset(offset) ==
  LET buf == <<0, 0>>
  IN  IF offset <= U8_MAX
        THEN SubSeq([buf EXCEPT ![1] = offset % 256], 1, 1)
        ELSE to_be_bytes(offset)

WriteMsg(bytes) == [flag |-> "write", buf |-> bytes]
ReadMsg(out) == [flag |-> "read", buf |-> out]

\* faulty variant: the read message is placed before the address write
BuildMessages_readFirst(offset, out) == <<ReadMsg(out), WriteMsg(offset)>>

\* [T::Message::write(offset), T::Message::read(out)]
BuildMessages(offset, out) == <<WriteMsg(offset), ReadMsg(out)>>

\* the messages of one transfer call reach the bus as one transaction
BusSubmit(log, messages) ==
  Append(log, [actor |-> "self", msgs |-> messages])

\* println!("{value:#02x?}"): each element in hexadecimal, most significant
\* digit first, no leading zero digit
HexDigits(b) == IF b < 16 THEN <<b>> ELSE <<b \div 16, b % 16>>
FormatValue(v) == [i \in 1..Len(v) |-> HexDigits(v[i])]

\* ---- initial state: the parsed arguments of the Read subcommand ----
Init ==
  /\ pc = "open"
  /\ args \in [bus : Buses, address : Addresses, offset : Offsets,
               size : 0..MaxSize]
  /\ i2c = 0
  /\ openCalls = 0
  /\ value = <<>>
  /\ addr = <<>>
  /\ transferLog = <<>>
  /\ busLog = <<>>
  /\ supplied = <<>>
  /\ n = None
  /\ m = None
  /\ err = <<>>
  /\ stdout = <<>>
  /\ exitCode = None

\* faulty variant: the size is checked first and the device is not opened
\* for an oversized request
Open_sizeCheckedFirst ==
  /\ pc = "open"
  /\ IF args.size > MAX_POST_BOX_SIZE
       THEN /\ err' = <<SizeError>>
            /\ exitCode' = EXIT_FAILURE
            /\ pc' = "failed"
            /\ UNCHANGED <<i2c, openCalls>>
       ELSE /\ openCalls' = openCalls + 1
            /\ \E ok \in BOOLEAN :
                 IF ok
                   THEN /\ i2c' = i2c + 1
                        /\ pc' = "size_check"
                        /\ UNCHANGED <<err, exitCode>>
                   ELSE /\ i2c' = i2c
                        /\ err' = <<OpenContext(BusPath(args.bus),
                                                args.address), IoError>>
                        /\ exitCode' = EXIT_FAILURE
                        /\ pc' = "failed"
  /\ UNCHANGED <<args, value, addr, transferLog, busLog, supplied, n, m,
                 stdout>>

\* ---- main: LinuxI2CDevice::new(&bus_path, address).with_context(..)? ----
Open ==
  /\ pc = "open"
  /\ openCalls' = openCalls + 1
  /\ \E ok \in BOOLEAN :
       IF ok
         THEN /\ i2c' = i2c + 1
              /\ pc' = "size_check"
              /\ UNCHANGED <<err, exitCode>>
         ELSE /\ i2c' = i2c
              /\ err' = <<OpenContext(BusPath(args.bus), args.address), IoError>>
              /\ exitCode' = EXIT_FAILURE
              /\ pc' = "failed"
  /\ UNCHANGED <<args, value, addr, transferLog, busLog, supplied, n, m,
                 stdout>>

\* faulty variant: the bound is off by one
SizeWithinBounds_offByOne(size) == size <= MAX_POST_BOX_SIZE + 1

\* size <= MAX_POST_BOX_SIZE
SizeWithinBounds(size) == size <= MAX_POST_BOX_SIZE

\* faulty variant: the handle outlives a failed size check
SizeCheck_keepsHandle ==
  /\ pc = "size_check"
  /\ value' = Zeros(MAX_POST_BOX_SIZE)
  /\ IF SizeWithinBounds(args.size)
       THEN /\ pc' = "encode"
            /\ UNCHANGED <<err, exitCode>>
       ELSE /\ err' = <<SizeError>>
            /\ exitCode' = EXIT_FAILURE
            /\ pc' = "failed"
  /\ UNCHANGED <<args, i2c, openCalls, addr, transferLog, busLog, supplied,
                 n, m, stdout>>

\* ---- main: let mut value = [0; MAX]; ensure!(size <= MAX_POST_BOX_SIZE) ----
SizeCheck ==
  /\ pc = "size_check"
  /\ value' = Zeros(MAX_POST_BOX_SIZE)
  /\ IF SizeWithinBounds(args.size)
       THEN /\ pc' = "encode"
            /\ UNCHANGED <<i2c, err, exitCode>>
       ELSE /\ err' = <<SizeError>>
            /\ exitCode' = EXIT_FAILURE
            /\ i2c' = i2c - 1
            /\ pc' = "failed"
  /\ UNCHANGED <<args, openCalls, addr, transferLog, busLog, supplied, n, m,
                 stdout>>

\* ---- smbus_read_post_box: build the address bytes ----
Encode ==
  /\ pc = "encode"
  /\ addr' = EncodeOffset(args.offset)
  /\ pc' = "transfer"
  /\ UNCHANGED <<args, i2c, openCalls, value, transferLog, busLog, supplied,
                 n, m, err, stdout, exitCode>>

\* faulty variant: an I/O error of the transport is retried
Transfer_retries ==
  /\ pc = "transfer"
  /\ LET out == SubSeq(value, 1, args.size)
         messages == BuildMessages(addr, out)
     IN  /\ transferLog' = Append(transferLog, messages)
         /\ busLog' = BusSubmit(busLog, messages)
         /\ m' = Len(messages)
         /\ \E data \in [1..args.size -> 0..MaxByte] :
              /\ supplied' = data
              /\ value' = data \o SubSeq(value, args.size + 1, Len(value))
         /\ \/ /\ n' = None
               /\ pc' = "transfer"
            \/ /\ n' \in 0..MaxN
               /\ pc' = "validate"
  /\ UNCHANGED <<args, i2c, openCalls, addr, err, stdout, exitCode>>

\* ---- smbus_read_post_box: self.transfer(&mut messages).context(..)? ----
\* The transport either reports an I/O error or a count of completed
\* messages; the read buffer holds whatever the transport left in it.
Transfer ==
  /\ pc = "transfer"
  /\ LET out == SubSeq(value, 1, args.size)
         messages == BuildMessages(addr, out)
     IN  /\ transferLog' = Append(transferLog, messages)
         /\ busLog' = BusSubmit(busLog, messages)
         /\ m' = Len(messages)
         /\ \E data \in [1..args.size -> 0..MaxByte] :
              /\ supplied' = data
              /\ value' = data \o SubSeq(value, args.size + 1, Len(value))
         /\ \/ /\ n' = None
               /\ err' = <<ReadContext(args.offset, args.size),
                           TransferContext, IoError>>
               /\ exitCode' = EXIT_FAILURE
               /\ i2c' = i2c - 1
               /\ pc' = "failed"
            \/ /\ n' \in 0..MaxN
               /\ pc' = "validate"
               /\ UNCHANGED <<i2c, err, exitCode>>
  /\ UNCHANGED <<args, openCalls, addr, stdout>>

\* faulty variant: any count of at least m is accepted
CountOk_atLeast(cnt, exp) == cnt >= exp

\* n as u64 == m as u64
CountOk(cnt, exp) == cnt = exp

\* faulty variant: the value is printed before the count is checked
Validate_printsFirst ==
  /\ pc = "validate"
  /\ stdout' = Append(stdout, FormatValue(value))
  /\ IF CountOk(n, m)
       THEN /\ exitCode' = EXIT_SUCCESS
            /\ pc' = "done"
            /\ UNCHANGED err
       ELSE /\ err' = <<ReadContext(args.offset, args.size), CountError(n, m)>>
            /\ exitCode' = EXIT_FAILURE
            /\ pc' = "failed"
  /\ i2c' = i2c - 1
  /\ UNCHANGED <<args, openCalls, value, addr, transferLog, busLog, supplied,
                 n, m>>

\* ---- smbus_read_post_box: ensure!(n == m); main: context, println, Ok ----
Validate ==
  /\ pc = "validate"
  /\ IF CountOk(n, m)
       THEN /\ stdout' = Append(stdout, FormatValue(value))
            /\ exitCode' = EXIT_SUCCESS
            /\ pc' = "done"
            /\ UNCHANGED err
       ELSE /\ err' = <<ReadContext(args.offset, args.size), CountError(n, m)>>
            /\ exitCode' = EXIT_FAILURE
            /\ pc' = "failed"
            /\ UNCHANGED stdout
  /\ i2c' = i2c - 1
  /\ UNCHANGED <<args, openCalls, value, addr, transferLog, busLog, supplied,
                 n, m>>

\* ---- another master's transaction on the same bus ----
OtherCount == Cardinality({i \in 1..Len(busLog) : busLog[i].actor = "other"})

OtherActor ==
  /\ OtherCount < MaxOther
  /\ busLog' = Append(busLog, [actor |-> "other",
                               msgs |-> <<WriteMsg(<<0>>)>>])
  /\ UNCHANGED <<pc, args, i2c, openCalls, value, addr, transferLog,
                 supplied, n, m, err, stdout, exitCode>>

Next == Open \/ SizeCheck \/ Encode \/ Transfer \/ Validate \/ OtherActor

Spec == Init /\ [][Next]_vars

\* ---- smbus_read_post_box alone, over the whole u16 offset range ----
InitEnc ==
  /\ pc = "encode"
  /\ args \in [bus : {1}, address : Addresses, offset : 0..U16_MAX,
               size : {0}]
  /\ i2c = 1
  /\ openCalls = 1
  /\ value = Zeros(MAX_POST_BOX_SIZE)
  /\ addr = <<>>
  /\ transferLog = <<>>
  /\ busLog = <<>>
  /\ supplied = <<>>
  /\ n = None
  /\ m = None
  /\ err = <<>>
  /\ stdout = <<>>
  /\ exitCode = None

NextEnc == Encode \/ Transfer

SpecEnc == InitEnc /\ [][NextEnc]_vars

\* ---- derived facts about a run ----
OpenFailed == err # <<>> /\ err[1].text = "Unable to open"
OpenSucceeded == openCalls = 1 /\ ~OpenFailed
SizeFailed == err = <<SizeError>>
SelfIdx == {i \in 1..Len(busLog) : busLog[i].actor = "self"}
MentionsDevice(e) ==
  \E i \in 1..Len(e) : e[i].bus_path # <<>> /\ e[i].address # None
MentionsOffset(e) == \E i \in 1..Len(e) : e[i].offset # None
MentionsSize(e) == \E i \in 1..Len(e) : e[i].size # None
Rank(p) ==
  CASE p \in {"open", "size_check"} -> 0
    [] p = "encode" -> 1
    [] p = "transfer" -> 2
    [] p = "validate" -> 3
    [] p \in Terminal -> 4

\* ======================= claims =======================

\* C1 (as stated): for every size > 8 the call ends with the size-bounds
\* error and the device is never opened, whatever the state of the device.
C1_SizeCheckBeforeOpen ==
  (args.size > MAX_POST_BOX_SIZE /\ pc \in Terminal)
    => (SizeFailed /\ openCalls = 0)

\* C1 (amended): the size check runs after the device has been opened and
\* before any transfer.  For size > 8 the device is opened exactly once, no
\* transfer is issued, and the call ends with the size-bounds error when the
\* open succeeded and with the open error when it did not.
C1_SizeCheckAfterOpen ==
  /\ (pc = "size_check" \/ SizeFailed) => openCalls = 1
  /\ (args.size > MAX_POST_BOX_SIZE /\ pc \in Terminal)
       => /\ openCalls = 1
          /\ transferLog = <<>>
          /\ pc = "failed"
          /\ (OpenSucceeded => SizeFailed)
          /\ (~OpenSucceeded => OpenFailed)

C1_Witness ==
  /\ pc = "failed"
  /\ args.size > MAX_POST_BOX_SIZE
  /\ OpenFailed
  /\ openCalls = 1

\* C2: for every size > 8, once the open has succeeded, the call ends with
\* the size-bounds error naming the maximum of 8 bytes, and the transfer
\* operation is never invoked.
C2_OversizeNoTransfer ==
  (args.size > MAX_POST_BOX_SIZE)
    => /\ transferLog = <<>>
       /\ busLog = SelectSeq(busLog, LAMBDA e : e.actor = "other")
       /\ (OpenSucceeded /\ pc # "size_check")
            => /\ pc = "failed"
               /\ Len(err) = 1
               /\ err[1].text = "Maximum post-box size"
               /\ err[1].max = 8
               /\ exitCode = EXIT_FAILURE

C2_Witness ==
  /\ pc = "failed"
  /\ args.size = 9
  /\ OpenSucceeded
  /\ SizeFailed
  /\ transferLog = <<>>

\* C3 (as stated): when the transport completes both messages and supplies
\* size bytes, the output is exactly those size bytes in order, of length
\* exactly size.
C3_OutputExactlySize ==
  (pc = "done")
    => /\ Len(stdout) = 1
       /\ Len(stdout[1]) = args.size
       /\ \A i \in 1..args.size : stdout[1][i] = HexDigits(supplied[i])

\* C4: the address bytes written to the device have length 1 iff
\* offset <= 255 (the byte equals offset), and otherwise are the two-byte
\* big-endian representation of offset.
C4_AddressBytes ==
  (pc \in {"transfer", "validate"} \/ transferLog # <<>>)
    => /\ Len(addr) \in {1, 2}
       /\ (Len(addr) = 1) <=> (args.offset <= 255)
       /\ (args.offset <= 255) => addr = <<args.offset>>
       /\ (args.offset > 255)
            => /\ addr = <<args.offset \div 256, args.offset % 256>>
               /\ addr[1] * 256 + addr[2] = args.offset
       /\ \A i \in 1..Len(addr) : addr[i] \in 0..255
       /\ \A i \in 1..Len(transferLog) :
            /\ transferLog[i][1].flag = "write"
            /\ transferLog[i][1].buf = addr

C4_Witness ==
  /\ args.offset = 4660
  /\ addr = <<18, 52>>
  /\ Len(transferLog) = 1
  /\ transferLog[1][1].buf = <<18, 52>>

\* C5: when the transport returns a count n without an I/O error, the read
\* succeeds iff n = 2; for every other n it fails with an error carrying
\* both n and the expected count 2.
C5_CountCheck ==
  (pc \in Terminal /\ n # None)
    => /\ m = 2
       /\ (pc = "done") <=> (n = 2)
       /\ (n = 2) => err = <<>>
       /\ (n # 2)
            => \E i \in 1..Len(err) :
                 /\ err[i].text
                      = "Only n/m messages were transmitted successfully"
                 /\ err[i].n = n
                 /\ err[i].m = 2

C5_Witness ==
  /\ pc = "failed"
  /\ n = 3
  /\ Len(err) = 2
  /\ err[2].n = 3
  /\ err[2].m = 2

\* C6: output is produced and the exit status is zero only if the open, the
\* size check, the transfer and the count check all succeeded; after any
\* failure nothing is printed and the exit status is non-zero.
C6_AllOrNothing ==
  LET allOk == /\ OpenSucceeded
               /\ args.size <= MAX_POST_BOX_SIZE
               /\ Len(transferLog) = 1
               /\ n # None
               /\ n = m
  IN  /\ (stdout # <<>> \/ exitCode = EXIT_SUCCESS) => (allOk /\ pc = "done")
      /\ (pc = "done") => (Len(stdout) = 1 /\ exitCode = EXIT_SUCCESS)
      /\ (pc = "failed") => (stdout = <<>> /\ exitCode = EXIT_FAILURE)
      /\ (pc \in Terminal /\ ~allOk) => pc = "failed"
      /\ (pc \notin Terminal) => (stdout = <<>> /\ exitCode = None)

C6_Witness ==
  /\ pc = "failed"
  /\ n = 1
  /\ supplied # Zeros(args.size)
  /\ stdout = <<>>
  /\ exitCode = EXIT_FAILURE

\* C7: bus traffic of a call is one combined transaction of exactly two
\* messages in this order: a write of the encoded address bytes, then a read
\* of exactly size bytes into a zeroed buffer; both are submitted by a single
\* transfer call, so they form one bus transaction with no transaction of
\* another master between them.
C7_CombinedTransaction ==
  /\ \A i \in 1..Len(transferLog) :
       LET ms == transferLog[i]
       IN  /\ Len(ms) = 2
           /\ ms[1].flag = "write"
           /\ ms[1].buf = addr
           /\ ms[1].buf = IF args.offset <= 255
                            THEN <<args.offset>>
                            ELSE <<args.offset \div 256, args.offset % 256>>
           /\ ms[2].flag = "read"
           /\ Len(ms[2].buf) = args.size
           /\ \A j \in 1..Len(ms[2].buf) : ms[2].buf[j] = 0
  /\ Cardinality(SelfIdx) = Len(transferLog)
  /\ Cardinality(SelfIdx) <= 1
  /\ \A i \in SelfIdx :
       /\ Len(busLog[i].msgs) = 2
       /\ busLog[i].msgs = transferLog[1]
       /\ busLog[i].msgs[1].flag = "write"
       /\ busLog[i].msgs[2].flag = "read"

C7_Witness ==
  /\ Len(busLog) = 2
  /\ busLog[1].actor = "other"
  /\ busLog[2].actor = "self"
  /\ args.size = 4
  /\ args.offset = 256

\* C8: a call moves forward through open/size check, encoding, transferring
\* and validating and ends in done or failed: no step returns to an earlier
\* stage or skips one (other than by failing), the transfer is invoked at
\* most once, and done/failed are terminal.
C8_LinearSequence ==
  [][ /\ \/ pc' = pc
         \/ Rank(pc') = Rank(pc) + 1
         \/ (pc \in {"open", "size_check"} /\ pc' = "size_check")
         \/ (pc \in {"open", "size_check", "transfer", "validate"}
               /\ pc' = "failed")
      /\ (pc' = "done") => (pc \in {"validate", "done"})
      /\ Len(transferLog') <= 1
      /\ Len(transferLog') >= Len(transferLog)
      /\ (pc \in Terminal)
           => UNCHANGED <<pc, args, i2c, openCalls, value, addr, transferLog,
                          supplied, n, m, err, stdout, exitCode>>
    ]_vars

C8_Witness ==
  /\ pc = "failed"
  /\ n = 0
  /\ Len(transferLog) = 1

\* C9: the device handle is held from the successful open to the end of the
\* call and has been released in every terminal state, whatever the outcome;
\* there is never more than one handle.
C9_HandleScoped ==
  /\ i2c \in {0, 1}
  /\ openCalls <= 1
  /\ (pc \in Terminal) => i2c = 0
  /\ (pc \in {"size_check", "encode", "transfer", "validate"}) => i2c = 1
  /\ (pc = "open") => i2c = 0

C9_Witness ==
  /\ pc = "done"
  /\ i2c = 0
  /\ openCalls = 1

\* C10 (as stated): every error carries context naming the offset, the size
\* and the device (bus path and address).
C10_FullContext ==
  (pc = "failed")
    => (MentionsDevice(err) /\ MentionsOffset(err) /\ MentionsSize(err))

\* C10 (amended): an open failure carries the bus path and the address but
\* neither offset nor size; a transport I/O failure and an incomplete
\* transfer carry the operation with offset and size but not the device; a
\* size-bounds failure carries only the maximum.
C10_PartialContext ==
  (pc = "failed")
    => /\ err # <<>>
       /\ OpenFailed
            => /\ err[1].bus_path = <<"/dev/i2c-", args.bus>>
               /\ err[1].address = args.address
               /\ ~MentionsOffset(err)
               /\ ~MentionsSize(err)
       /\ (OpenSucceeded /\ transferLog = <<>>)
            => /\ Len(err) = 1
               /\ err[1].max = MAX_POST_BOX_SIZE
               /\ ~MentionsDevice(err)
               /\ ~MentionsOffset(err)
               /\ ~MentionsSize(err)
       /\ (transferLog # <<>>)
            => /\ err[1].text = "Unable to read post-box"
               /\ err[1].offset = args.offset
               /\ err[1].size = args.size
               /\ ~MentionsDevice(err)

C10_Witness ==
  /\ pc = "failed"
  /\ Len(err) = 3
  /\ err[2].text = "Unable to complete i2c transfer"
  /\ err[1].offset = 4660

====
